---- MODULE Spec2Model ----
(***************************************************************************)
(* Model of the campaign URL builder's utility functions (src/utils.py):   *)
(* normalize_url, build_campaign_url, lint_utm_parameter and               *)
(* validate_url_reachability.                                              *)
(*                                                                         *)
(* A Python str is a sequence of one-character strings.  None is the       *)
(* one-element sequence <<"None">>, which is no str because "None" is not  *)
(* a character.  The state is the call in progress: its arguments, the     *)
(* position of the callee, the requests it has issued and what it          *)
(* returned.                                                               *)
(***************************************************************************)
EXTENDS Integers, Sequences, FiniteSets, TLC

VARIABLES
    pc,         \* "idle" | "head" | "get" | "done": position of the call in progress
    op,         \* the function called, "none" when idle
    url,        \* normalize_url(url) / build_campaign_url(base_url) / validate_url_reachability(url)
    record,     \* the six campaign fields passed to build_campaign_url
    value,      \* lint_utm_parameter(value)
    result,     \* the value returned
    raised,     \* TRUE when the call ended by raising to its caller
    requests,   \* the probes validate_url_reachability issued, in order, with their outcomes
    response,   \* its local variable response: the status code of the last answer, 0 before one
    attempts,   \* generate_campaign_data: how each attempt of the call ended, in order
    message_content, \* response.choices[0].message.content of the last attempt
    error,      \* the class of the exception generate_campaign_data raised, "none" if none
    form,       \* st.session_state: the seven form fields
    usage_count, \* st.session_state.usage_count
    shown       \* the st.error box of the generate handler: which message, "none" if none

\* the state of the app around generate_campaign_data
appvars == <<attempts, message_content, error, form, usage_count, shown>>

vars == <<pc, op, url, record, value, result, raised, requests, response,
          attempts, message_content, error, form, usage_count, shown>>

----------------------------------------------------------------------------
(* Bounds of the input sets *)

MaxBody == 2     \* characters after the scheme in normalize_url's inputs
MaxLen == 3      \* characters of lint_utm_parameter's inputs
MaxPairs == 2    \* '&'-separated items in the base URL's query string
MaxUsage == 2    \* generate clicks that succeed in one session

----------------------------------------------------------------------------
(* Python values *)

None == <<"None">>

\* truthiness of an Optional[str]: None and "" are falsy
Truthy(v) == v # None /\ v # <<>>

Whitespace == {" ", "\t"}

UpperLetters ==
    <<"A","B","C","D","E","F","G","H","I","J","K","L","M",
      "N","O","P","Q","R","S","T","U","V","W","X","Y","Z">>

LowerLetters ==
    <<"a","b","c","d","e","f","g","h","i","j","k","l","m",
      "n","o","p","q","r","s","t","u","v","w","x","y","z">>

Digits == <<"0","1","2","3","4","5","6","7","8","9">>

Range(s) == {s[i] : i \in DOMAIN s}

\* s[i:] of Python with the 1-based index i
From(s, i) == SubSeq(s, i, Len(s))

\* s[:i-1] of Python: the characters before the 1-based index i
Before(s, i) == SubSeq(s, 1, i - 1)

\* str.startswith(prefix)
startswith(s, prefix) ==
    /\ Len(s) >= Len(prefix)
    /\ SubSeq(s, 1, Len(prefix)) = prefix

\* str.find(c, start) with 1-based indices; 0 when c does not occur
RECURSIVE find(_, _, _)
find(s, c, start) ==
    IF start > Len(s) THEN 0
    ELSE IF s[start] = c THEN start
    ELSE find(s, c, start + 1)

\* str.rfind(c) with 1-based indices; 0 when c does not occur
RECURSIVE rfindFrom(_, _, _)
rfindFrom(s, c, i) ==
    IF i = 0 THEN 0
    ELSE IF s[i] = c THEN i
    ELSE rfindFrom(s, c, i - 1)

rfind(s, c) == rfindFrom(s, c, Len(s))

RECURSIVE lstrip(_)
lstrip(s) ==
    IF s # <<>> /\ Head(s) \in Whitespace THEN lstrip(Tail(s)) ELSE s

RECURSIVE rstrip(_)
rstrip(s) ==
    IF s # <<>> /\ s[Len(s)] \in Whitespace
    THEN rstrip(SubSeq(s, 1, Len(s) - 1))
    ELSE s

\* str.strip()
strip(s) == rstrip(lstrip(s))

\* str.split(c, 1): <<s>> when c does not occur, else <<before, after>>
split1(s, c) ==
    LET i == find(s, c, 1)
    IN  IF i = 0 THEN <<s>> ELSE <<Before(s, i), From(s, i + 1)>>

\* str.split(c)
RECURSIVE split(_, _)
split(s, c) ==
    LET i == find(s, c, 1)
    IN  IF i = 0 THEN <<s>> ELSE <<Before(s, i)>> \o split(From(s, i + 1), c)

\* c.join(parts)
RECURSIVE join(_, _)
join(parts, c) ==
    IF parts = <<>> THEN <<>>
    ELSE IF Len(parts) = 1 THEN parts[1]
    ELSE parts[1] \o <<c>> \o join(Tail(parts), c)

HttpPrefix == <<"h","t","t","p",":","/","/">>
HttpsPrefix == <<"h","t","t","p","s",":","/","/">>

----------------------------------------------------------------------------
(* normalize_url *)

\* the f-string of line 104 interpolates the url it was given (mutant)
normalize_url_unstripped(u) ==
    IF ~Truthy(u) THEN <<>>
    ELSE IF ~(startswith(strip(u), HttpPrefix) \/ startswith(strip(u), HttpsPrefix))
         THEN HttpsPrefix \o u
         ELSE strip(u)

normalize_url(u) ==
    IF ~Truthy(u) THEN <<>>
    ELSE LET t == strip(u)
         IN  IF ~(startswith(t, HttpPrefix) \/ startswith(t, HttpsPrefix))
             THEN HttpsPrefix \o t
             ELSE t

----------------------------------------------------------------------------
(* lint_utm_parameter *)

Uppercase == "Contains uppercase letters (lowercase is preferred for consistency)"
ContainsSpaces == "Contains spaces (use underscores or hyphens instead)"
SpecialCharacters == "Contains special characters (stick to alphanumeric, -, and _)"

\* the characters the class [a-zA-Z0-9\-_] of line 208 matches
LintAllowed ==
    Range(LowerLetters) \cup Range(UpperLetters) \cup Range(Digits) \cup {"-", "_"}

\* the checks chained with elif, so that only the first one reports (mutant)
lint_utm_parameter_elif(v) ==
    IF ~Truthy(v) THEN <<>>
    ELSE IF \E i \in DOMAIN v : v[i] \in Range(UpperLetters) THEN <<Uppercase>>
    ELSE IF \E i \in DOMAIN v : v[i] = " " THEN <<ContainsSpaces>>
    ELSE IF \E i \in DOMAIN v : v[i] \notin LintAllowed THEN <<SpecialCharacters>>
    ELSE <<>>

lint_utm_parameter(v) ==
    IF ~Truthy(v) THEN <<>>
    ELSE LET w0 == <<>>
             w1 == IF \E i \in DOMAIN v : v[i] \in Range(UpperLetters)
                   THEN Append(w0, Uppercase) ELSE w0
             w2 == IF \E i \in DOMAIN v : v[i] = " "
                   THEN Append(w1, ContainsSpaces) ELSE w1
             w3 == IF \E i \in DOMAIN v : v[i] \notin LintAllowed
                   THEN Append(w2, SpecialCharacters) ELSE w2
         IN  w3

----------------------------------------------------------------------------
(* urllib.parse, as build_campaign_url uses it *)

\* string.hexdigits, upper case first: the digits quote() writes
HexDigits == Digits \o <<"A","B","C","D","E","F">>

HexValue(c) ==
    IF c \in Range(Digits) THEN (CHOOSE i \in DOMAIN Digits : Digits[i] = c) - 1
    ELSE IF c \in {"A","a"} THEN 10
    ELSE IF c \in {"B","b"} THEN 11
    ELSE IF c \in {"C","c"} THEN 12
    ELSE IF c \in {"D","d"} THEN 13
    ELSE IF c \in {"E","e"} THEN 14
    ELSE IF c \in {"F","f"} THEN 15
    ELSE -1

\* the printable ASCII characters, code points 32 to 126 in order; code point
\* 96 (the grave accent, which a TLA+ string cannot hold) is spelled out
Ascii ==
    <<" ","!","\"","#","$","%","&","'","(",")","*","+",",","-",".","/">>
    \o Digits \o <<":",";","<","=",">","?","@">>
    \o UpperLetters \o <<"[","\\","]","^","_","grave">>
    \o LowerLetters \o <<"{","|","}","~">>

ord(c) == 31 + (CHOOSE i \in DOMAIN Ascii : Ascii[i] = c)

chr(n) == Ascii[n - 31]

\* the characters quote() never encodes (_ALWAYS_SAFE)
AlwaysSafe ==
    Range(LowerLetters) \cup Range(UpperLetters) \cup Range(Digits)
        \cup {"_", ".", "-", "~"}

\* quote_plus(s, safe): ' ' becomes '+', unsafe characters become %XX
RECURSIVE quote_plus(_, _)
quote_plus(s, safe) ==
    IF s = <<>> THEN <<>>
    ELSE LET c == Head(s)
             e == IF c = " " THEN <<"+">>
                  ELSE IF c \in AlwaysSafe \cup safe THEN <<c>>
                  ELSE <<"%", HexDigits[(ord(c) \div 16) + 1],
                              HexDigits[(ord(c) % 16) + 1]>>
         IN  e \o quote_plus(Tail(s), safe)

\* unquote(s): %XX becomes the character it encodes; an escape that is not
\* two hex digits is left as it is.  Escapes of bytes outside printable
\* ASCII do not occur in the strings of this model and are left as they are.
RECURSIVE unquote(_)
unquote(s) ==
    IF s = <<>> THEN <<>>
    ELSE IF /\ Head(s) = "%"
            /\ Len(s) >= 3
            /\ HexValue(s[2]) >= 0
            /\ HexValue(s[3]) >= 0
            /\ 16 * HexValue(s[2]) + HexValue(s[3]) \in 32..126
         THEN <<chr(16 * HexValue(s[2]) + HexValue(s[3]))>> \o unquote(From(s, 4))
         ELSE <<Head(s)>> \o unquote(Tail(s))

\* str.replace('+', ' ')
plus_to_space(s) == [i \in DOMAIN s |-> IF s[i] = "+" THEN " " ELSE s[i]]

\* str.lower()
lower(s) ==
    [i \in DOMAIN s |->
        IF s[i] \in Range(UpperLetters)
        THEN LowerLetters[CHOOSE j \in DOMAIN UpperLetters : UpperLetters[j] = s[i]]
        ELSE s[i]]

\* scheme_chars of urllib.parse
scheme_chars ==
    Range(LowerLetters) \cup Range(UpperLetters) \cup Range(Digits) \cup {"+", "-", "."}

uses_params_http == {<<"h","t","t","p">>, <<"h","t","t","p","s">>}

\* _splitnetloc(url, 2) with url starting "//": <<netloc, rest>>
splitnetloc(u) ==
    LET ends == {i \in 3..Len(u) : u[i] \in {"/", "?", "#"}}
        delim == IF ends = {} THEN Len(u) + 1
                 ELSE CHOOSE i \in ends : \A j \in ends : i <= j
    IN  <<SubSeq(u, 3, delim - 1), From(u, delim)>>

\* the bracketed hosts ipaddress.ip_address / the IPvFuture pattern accept,
\* among those the inputs of this model can spell
ValidBracketedHosts == {<<":", ":", "1">>}

\* netloc.partition('[')[2].partition(']')[0]
bracketed_host(netloc) ==
    LET a == From(netloc, find(netloc, "[", 1) + 1)
        j == find(a, "]", 1)
    IN  IF j = 0 THEN a ELSE Before(a, j)

\* does urlsplit raise ValueError on this netloc
netloc_raises(netloc) ==
    LET open == "[" \in Range(netloc)
        close == "]" \in Range(netloc)
    IN  \/ open /\ ~close
        \/ close /\ ~open
        \/ open /\ close /\ bracketed_host(netloc) \notin ValidBracketedHosts

\* _splitparams(path): <<path, params>>
splitparams(path) ==
    LET i == IF "/" \in Range(path)
             THEN find(path, ";", rfind(path, "/"))
             ELSE find(path, ";", 1)
    IN  IF i = 0 THEN <<path, <<>>>>
        ELSE <<Before(path, i), From(path, i + 1)>>

\* urlparse(url): the six components, and raised = TRUE when it raises ValueError.
\* The callers pass a url without leading whitespace, tab, CR or LF.
urlparse(u) ==
    LET i == find(u, ":", 1)
        hasScheme ==
            /\ i > 1
            /\ u[1] \in Range(LowerLetters) \cup Range(UpperLetters)
            /\ \A k \in 1..(i - 1) : u[k] \in scheme_chars
        scheme == IF hasScheme THEN lower(Before(u, i)) ELSE <<>>
        u1 == IF hasScheme THEN From(u, i + 1) ELSE u
        hasNetloc == startswith(u1, <<"/", "/">>)
        netloc == IF hasNetloc THEN splitnetloc(u1)[1] ELSE <<>>
        u2 == IF hasNetloc THEN splitnetloc(u1)[2] ELSE u1
        f == split1(u2, "#")
        fragment == IF Len(f) = 2 THEN f[2] ELSE <<>>
        q == split1(f[1], "?")
        query == IF Len(q) = 2 THEN q[2] ELSE <<>>
        u3 == q[1]
        pp == IF scheme \in uses_params_http /\ ";" \in Range(u3)
              THEN splitparams(u3) ELSE <<u3, <<>>>>
    IN  [raised |-> hasNetloc /\ netloc_raises(netloc),
         scheme |-> scheme, netloc |-> netloc, path |-> pp[1],
         params |-> pp[2], query |-> query, fragment |-> fragment]

\* parse_qsl(qs) with its defaults: the decoded (name, value) pairs, in order
RECURSIVE parse_qsl_items(_)
parse_qsl_items(items) ==
    IF items = <<>> THEN <<>>
    ELSE LET nv == split1(Head(items), "=")
             rest == parse_qsl_items(Tail(items))
         IN  IF Head(items) = <<>> THEN rest
             ELSE IF Len(nv) # 2 THEN rest
             ELSE IF Len(nv[2]) > 0
                  THEN <<<<unquote(plus_to_space(nv[1])),
                           unquote(plus_to_space(nv[2]))>>>> \o rest
                  ELSE rest

parse_qsl(qs) ==
    IF qs = <<>> THEN <<>> ELSE parse_qsl_items(split(qs, "&"))

\* d.setdefault(k, v): a key already present keeps its value (mutant)
dict_setdefault(d, k, v) ==
    IF \E i \in DOMAIN d : d[i][1] = k THEN d ELSE Append(d, <<k, v>>)

\* d[k] = v on a dict kept as a sequence of <<key, value>> in insertion order
dict_set(d, k, v) ==
    IF \E i \in DOMAIN d : d[i][1] = k
    THEN [i \in DOMAIN d |-> IF d[i][1] = k THEN <<k, v>> ELSE d[i]]
    ELSE Append(d, <<k, v>>)

\* dict(pairs), and d.update(pairs)
RECURSIVE dict_update(_, _)
dict_update(d, pairs) ==
    IF pairs = <<>> THEN d
    ELSE dict_update(dict_set(d, Head(pairs)[1], Head(pairs)[2]), Tail(pairs))

dict(pairs) == dict_update(<<>>, pairs)

\* urlencode(d, safe='/')
urlencode(d, safe) ==
    join([i \in DOMAIN d |->
            quote_plus(d[i][1], safe) \o <<"=">> \o quote_plus(d[i][2], safe)],
         "&")

uses_netloc_http == uses_params_http

\* urlunparse((scheme, netloc, path, params, query, fragment))
urlunparse(scheme, netloc, path, params, query, fragment) ==
    LET u0 == IF params # <<>> THEN path \o <<";">> \o params ELSE path
        u1 == IF \/ netloc # <<>>
                 \/ (scheme # <<>> /\ scheme \in uses_netloc_http
                        /\ ~startswith(u0, <<"/", "/">>))
              THEN <<"/", "/">> \o netloc
                    \o (IF u0 # <<>> /\ Head(u0) # "/" THEN <<"/">> \o u0 ELSE u0)
              ELSE u0
        u2 == IF scheme # <<>> THEN scheme \o <<":">> \o u1 ELSE u1
        u3 == IF query # <<>> THEN u2 \o <<"?">> \o query ELSE u2
    IN  IF fragment # <<>> THEN u3 \o <<"#">> \o fragment ELSE u3

----------------------------------------------------------------------------
(* build_campaign_url *)

utm_source == <<"u","t","m","_","s","o","u","r","c","e">>
utm_medium == <<"u","t","m","_","m","e","d","i","u","m">>
utm_campaign == <<"u","t","m","_","c","a","m","p","a","i","g","n">>
utm_id == <<"u","t","m","_","i","d">>
utm_term == <<"u","t","m","_","t","e","r","m">>
utm_content == <<"u","t","m","_","c","o","n","t","e","n","t">>

\* the dict literal of lines 158-165, in its insertion order
utm_params(source, medium, campaign_name, campaign_id, term, content) ==
    << <<utm_source, source>>, <<utm_medium, medium>>,
       <<utm_campaign, campaign_name>>, <<utm_id, campaign_id>>,
       <<utm_term, term>>, <<utm_content, content>> >>

\* {k: v for k, v in utm_params.items() if v}
clean_params(pairs) == SelectSeq(pairs, LAMBDA kv : Truthy(kv[2]))

\* the handler of line 151 written for one exception class only (mutant)
except_catches_type_error(exception) == exception = "TypeError"

\* except Exception (line 151): every exception class urlparse raises
except_catches(exception) == exception \in {"ValueError", "TypeError"}

\* does build_campaign_url(base_url, ...) end by raising: urlparse raises
\* ValueError inside the try of lines 149-152; parse_qsl, urlencode and
\* urlunparse run outside it and do not raise on strings of these characters
build_campaign_url_raises(base_url) ==
    /\ Truthy(base_url)
    /\ ~except_catches("ValueError")
    /\ urlparse(normalize_url(base_url)).raised

build_campaign_url(base_url, source, medium, campaign_name, campaign_id, term, content) ==
    IF ~Truthy(base_url) THEN <<>>
    ELSE LET normalized == normalize_url(base_url)
             parsed_url == urlparse(normalized)
             query_params == dict(parse_qsl(parsed_url.query))
             utm == clean_params(
                        utm_params(source, medium, campaign_name, campaign_id,
                                   term, content))
             merged == dict_update(query_params, utm)
             new_query == urlencode(merged, {"/"})
         IN  IF parsed_url.raised THEN normalized
             ELSE urlunparse(parsed_url.scheme, parsed_url.netloc, parsed_url.path,
                             parsed_url.params, new_query, parsed_url.fragment)

----------------------------------------------------------------------------
(* validate_url_reachability *)

\* what requests.head / requests.get can do: raise, or answer with a status
StatusCodes == {100, 199, 200, 204, 301, 302, 399, 400, 403, 404, 405, 500, 503}

Outcomes ==
    {[raised |-> TRUE, status_code |-> 0]}
        \cup {[raised |-> FALSE, status_code |-> s] : s \in StatusCodes}

\* line 122 retrying on every client or server error (mutant)
head_not_allowed_any_error(status_code) == status_code >= 400

\* the condition of line 122
head_not_allowed(status_code) == status_code = 405

\* line 125 with the upper end included (mutant)
reachable_status_inclusive(status_code) == 200 <= status_code /\ status_code <= 400

\* the expression returned at line 125
reachable_status(status_code) == 200 <= status_code /\ status_code < 400

----------------------------------------------------------------------------
(* generate_campaign_data and the generate handler of app.py *)

\* a field the answer's JSON object does not have, and one that holds a number
Absent == <<"absent">>
Number == <<"number">>

\* answers that are no JSON object, and the failure of the API call itself
Malformed == [malformed |-> TRUE]
ApiError == [api_error |-> TRUE]
NoContent == [no_content |-> TRUE]

FieldNames ==
    <<"website_url", "campaign_source", "campaign_medium", "campaign_name",
      "campaign_id", "campaign_term", "campaign_content">>

RequiredFields == {"website_url", "campaign_source", "campaign_medium"}

\* stop_after_attempt(3)
StopAfterAttempt == 3

\* a str field of CampaignData (lines 90-92): present, and a string
valid_required(v) == v # Absent /\ v # None /\ v # Number

\* an Optional[str] = None field (lines 93-96): absent, null or a string
valid_optional(v) == v # Number

\* campaign_source declared Optional[str] = None like the fields after it (mutant)
validates_source_optional(c) ==
    /\ c # Malformed
    /\ \A f \in DOMAIN c :
        IF f \in RequiredFields \ {"campaign_source"}
        THEN valid_required(c[f]) ELSE valid_optional(c[f])

\* does CampaignData.model_validate_json(content) accept the answer (line 270)
validates(c) ==
    /\ c # Malformed
    /\ \A f \in DOMAIN c :
        IF f \in RequiredFields THEN valid_required(c[f]) ELSE valid_optional(c[f])

\* .model_dump(): the seven fields, an absent optional one with its default None
model_dump(c) == [f \in DOMAIN c |-> IF c[f] = Absent THEN None ELSE c[f]]

\* tenacity stopping one attempt late (mutant)
should_stop_late(attempt_number) == attempt_number > StopAfterAttempt

\* stop_after_attempt(3) of line 213: no retry after this attempt
should_stop(attempt_number) == attempt_number >= StopAfterAttempt

\* how one attempt of the function body (lines 221-270) ends
attempt_kind(o) ==
    IF o = ApiError THEN "api_error"
    ELSE IF validates(o) THEN "valid"
    ELSE "invalid"

\* the except clauses of app.py lines 207-212, tried in order, for the
\* exception class the call raised; tenacity raises RetryError (reraise is
\* not set), which is no pydantic ValidationError
InvalidFormatMessage == "The AI returned an invalid response format."
OpenAIErrorMessage == "Error calling OpenAI"

handler_message(e) ==
    IF e = "ValidationError" THEN InvalidFormatMessage ELSE OpenAIErrorMessage

\* result.get(k) or "" of app.py lines 197-203
form_of(r) == [f \in DOMAIN r |-> IF Truthy(r[f]) THEN r[f] ELSE <<>>]

EmptyForm == [f \in Range(FieldNames) |-> <<>>]

\* what the extraction service can answer
Contents ==
    {Malformed} \cup
    [website_url : {Absent, None, <<"h">>},
     campaign_source : {Absent, <<"g">>},
     campaign_medium : {None, <<"c">>},
     campaign_name : {Absent, None, <<"n">>},
     campaign_id : {None, Number},
     campaign_term : {None},
     campaign_content : {None}]

ServiceOutcomes == {ApiError} \cup Contents

----------------------------------------------------------------------------
(* The inputs *)

\* all sequences over S of length at most n
RECURSIVE SeqsUpTo(_, _)
SeqsUpTo(S, n) ==
    IF n = 0 THEN {<<>>}
    ELSE LET shorter == SeqsUpTo(S, n - 1)
         IN  shorter \cup {Append(t, c) : t \in shorter, c \in S}

NormalizeInputs ==
    {None} \cup
    {lead \o scheme \o body \o trail :
        lead \in {<<>>, <<" ">>, <<"\t", " ">>},
        scheme \in {<<>>, HttpPrefix, HttpsPrefix,
                    <<"H","T","T","P",":","/","/">>,
                    <<"H","t","t","p","s",":","/","/">>,
                    <<"h","t","t","p","s",":","/">>},
        body \in SeqsUpTo({"a", " ", "/"}, MaxBody),
        trail \in {<<>>, <<" ">>}}

LintInputs == {None} \cup SeqsUpTo({"a", "Z", "0", " ", "!", "-", "_"}, MaxLen)

QueryItems ==
    { <<"x","=","a">>,
      <<"x","=","%","2","F","+">>,
      <<"x","=">>,
      utm_source \o <<"=","o">>,
      utm_id \o <<"=">> }

Queries ==
    {IF items = <<>> THEN <<>> ELSE <<"?">> \o join(items, "&") :
        items \in SeqsUpTo(QueryItems, MaxPairs)}

\* base URLs that are empty, blank or padded with whitespace
PaddedUrls ==
    {None, <<>>, <<" ">>, <<"\t", " ">>, <<" ", "h", " ">>,
     <<" ">> \o HttpsPrefix \o <<"h", "?", "x", "=", "a", " ">>}

\* base URLs that name their scheme
SchemeUrls ==
    {prefix \o <<"h">> \o path \o query :
        prefix \in {HttpPrefix, HttpsPrefix, <<"H","T","T","P",":","/","/">>},
        path \in {<<>>, <<"/","p",";","q">>},
        query \in {<<>>, <<"?","x","=","a","&">> \o utm_source \o <<"=","o","#","f">>}}

\* base URLs with a bracketed host: a valid one, and one ipaddress rejects
BracketedUrls ==
    {HttpsPrefix \o <<"[",":",":","1","]","/","p","?","x","=","a">>,
     HttpsPrefix \o <<"[","h","]","?","x","=","a">>}

\* base URLs without authority: a protocol-relative URL, and paths after 'https://'
SlashUrls ==
    {<<"/","/","h">>,
     <<"/","/","h","/","p","?","x","=","a","#","f">>,
     HttpsPrefix \o <<"/","p","?","x","=","a">>,
     HttpsPrefix \o <<"/","/","h","?","x","=","a">>}

BaseUrls ==
    PaddedUrls \cup SchemeUrls \cup BracketedUrls \cup SlashUrls \cup
    {host \o path \o query \o fragment :
        host \in {<<"h">>, <<"[">>},
        path \in {<<>>, <<"/","p",";","q">>},
        query \in Queries,
        fragment \in {<<>>, <<"#","f">>}}

Records ==
    [source : {<<>>, <<"n","e","w">>},
     medium : {<<>>, <<"c","p","c">>},
     campaign_name : {None, <<"s"," ","p","/","&">>},
     campaign_id : {None, <<>>, <<"7">>},
     term : {None, <<"t">>},
     content : {None, <<"c">>}]

NoRecord ==
    [source |-> <<>>, medium |-> <<>>, campaign_name |-> None,
     campaign_id |-> None, term |-> None, content |-> None]

ReachUrls ==
    {None, <<>>, <<" ">>, <<"\t", " ">>, <<"h">>,
     HttpsPrefix \o <<"h">>, HttpPrefix \o <<"h">>}

----------------------------------------------------------------------------
(* The calls *)

Init ==
    /\ pc = "idle"
    /\ op = "none"
    /\ url = <<>>
    /\ record = NoRecord
    /\ value = <<>>
    /\ result = <<>>
    /\ raised = FALSE
    /\ requests = <<>>
    /\ response = 0
    /\ attempts = <<>>
    /\ message_content = NoContent
    /\ error = "none"
    /\ form = EmptyForm
    /\ usage_count = 0
    /\ shown = "none"

\* a call result = normalize_url(raw)
NormalizeCall ==
    /\ pc = "idle"
    /\ \E raw \in NormalizeInputs :
        /\ pc' = "done"
        /\ op' = "normalize_url"
        /\ url' = raw
        /\ result' = normalize_url(raw)
        /\ raised' = FALSE
        /\ UNCHANGED <<record, value, requests, response>>
    /\ UNCHANGED appvars

\* a call result = build_campaign_url(base_url, source, ..., content)
BuildCall ==
    /\ pc = "idle"
    /\ \E base_url \in BaseUrls, r \in Records :
        /\ pc' = "done"
        /\ op' = "build_campaign_url"
        /\ url' = base_url
        /\ record' = r
        /\ raised' = build_campaign_url_raises(base_url)
        /\ result' = IF build_campaign_url_raises(base_url) THEN None
                      ELSE build_campaign_url(base_url, r.source, r.medium,
                                              r.campaign_name, r.campaign_id,
                                              r.term, r.content)
        /\ UNCHANGED <<value, requests, response>>
    /\ UNCHANGED appvars

\* a call result = lint_utm_parameter(v)
LintCall ==
    /\ pc = "idle"
    /\ \E v \in LintInputs :
        /\ pc' = "done"
        /\ op' = "lint_utm_parameter"
        /\ value' = v
        /\ result' = lint_utm_parameter(v)
        /\ raised' = FALSE
        /\ UNCHANGED <<url, record, requests, response>>
    /\ UNCHANGED appvars

\* validate_url_reachability(u) up to its first request: the guard of line 112
ReachCall ==
    /\ pc = "idle"
    /\ \E u \in ReachUrls :
        /\ op' = "validate_url_reachability"
        /\ url' = u
        /\ requests' = <<>>
        /\ response' = 0
        /\ raised' = FALSE
        /\ IF ~Truthy(u)
           THEN pc' = "done" /\ result' = FALSE
           ELSE pc' = "head" /\ result' = <<>>
        /\ UNCHANGED <<record, value>>
    /\ UNCHANGED appvars

\* requests.head answers or raises (line 119), then lines 122 and 125-127
HeadRequest ==
    /\ pc = "head"
    /\ \E o \in Outcomes :
        /\ requests' = Append(requests, [method |-> "HEAD", outcome |-> o])
        /\ IF o.raised
           THEN pc' = "done" /\ result' = FALSE /\ response' = response
           ELSE /\ response' = o.status_code
                /\ IF head_not_allowed(o.status_code)
                   THEN pc' = "get" /\ result' = result
                   ELSE pc' = "done" /\ result' = reachable_status(o.status_code)
        /\ UNCHANGED <<op, url, record, value, raised>>
    /\ UNCHANGED appvars

\* requests.get answers or raises (line 123), then lines 125-127
GetRequest ==
    /\ pc = "get"
    /\ \E o \in Outcomes :
        /\ requests' = Append(requests, [method |-> "GET", outcome |-> o])
        /\ pc' = "done"
        /\ IF o.raised
           THEN result' = FALSE /\ response' = response
           ELSE response' = o.status_code /\ result' = reachable_status(o.status_code)
        /\ UNCHANGED <<op, url, record, value, raised>>
    /\ UNCHANGED appvars

\* the caller takes the result; the next call starts from scratch
Return ==
    /\ pc = "done"
    /\ pc' = "idle"
    /\ op' = "none"
    /\ url' = <<>>
    /\ record' = NoRecord
    /\ value' = <<>>
    /\ result' = <<>>
    /\ raised' = FALSE
    /\ requests' = <<>>
    /\ response' = 0
    /\ attempts' = <<>>
    /\ message_content' = NoContent
    /\ error' = "none"
    /\ shown' = "none"
    /\ UNCHANGED <<form, usage_count>>

\* the Generate Draft button with a prompt (app.py line 191): the handler
\* calls generate_campaign_data, which starts its first attempt
GenerateClick ==
    /\ pc = "idle"
    /\ usage_count < MaxUsage
    /\ pc' = "attempt"
    /\ op' = "generate_campaign_data"
    /\ attempts' = <<>>
    /\ message_content' = NoContent
    /\ error' = "none"
    /\ shown' = "none"
    /\ raised' = FALSE
    /\ result' = None
    /\ UNCHANGED <<url, record, value, requests, response, form, usage_count>>

\* one attempt of generate_campaign_data: the service answers or the call
\* fails; the function returns, or tenacity retries or gives up (line 213);
\* when the call is over the handler of app.py lines 195-212 runs
Attempt ==
    /\ pc = "attempt"
    /\ \E o \in ServiceOutcomes :
        LET kind == attempt_kind(o)
            n == Len(attempts) + 1
        IN  /\ attempts' = Append(attempts, kind)
            /\ message_content' = o
            /\ IF kind = "valid"
               THEN /\ pc' = "done"
                    /\ result' = model_dump(o)
                    /\ raised' = FALSE
                    /\ error' = "none"
                    /\ form' = form_of(model_dump(o))
                    /\ usage_count' = usage_count + 1
                    /\ shown' = "none"
               ELSE IF should_stop(n)
               THEN /\ pc' = "done"
                    /\ result' = None
                    /\ raised' = TRUE
                    /\ error' = "RetryError"
                    /\ shown' = handler_message("RetryError")
                    /\ UNCHANGED <<form, usage_count>>
               ELSE /\ pc' = "attempt"
                    /\ UNCHANGED <<result, raised, error, form, usage_count, shown>>
    /\ UNCHANGED <<op, url, record, value, requests, response>>

NextNormalize == NormalizeCall \/ Return
NextGenerate == GenerateClick \/ Attempt \/ Return
NextBuild == BuildCall \/ Return
NextLint == LintCall \/ Return
NextReach == ReachCall \/ HeadRequest \/ GetRequest \/ Return

Next ==
    \/ NormalizeCall
    \/ BuildCall
    \/ LintCall
    \/ ReachCall
    \/ HeadRequest
    \/ GetRequest
    \/ GenerateClick
    \/ Attempt
    \/ Return

SpecNormalize == Init /\ [][NextNormalize]_vars
SpecBuild == Init /\ [][NextBuild]_vars
SpecLint == Init /\ [][NextLint]_vars
SpecReach == Init /\ [][NextReach]_vars
SpecGenerate == Init /\ [][NextGenerate]_vars

\* an attempt that was started ends: the request returns or fails, and the
\* wait between two attempts is at most 10 seconds (line 213)
SpecGenerateFair == SpecGenerate /\ WF_vars(Attempt)
Spec == Init /\ [][Next]_vars

----------------------------------------------------------------------------
(* Vocabulary of the properties *)

Built == pc = "done" /\ op = "build_campaign_url"

\* the items of a query string as written: every non-empty '&'-separated item,
\* its key and value decoded, an item without value having the value ""
RECURSIVE written_items(_)
written_items(items) ==
    IF items = <<>> THEN <<>>
    ELSE LET nv == split1(Head(items), "=")
             rest == written_items(Tail(items))
         IN  IF Head(items) = <<>> THEN rest
             ELSE <<<<unquote(plus_to_space(nv[1])),
                      IF Len(nv) = 2 THEN unquote(plus_to_space(nv[2])) ELSE <<>>>>>>
                  \o rest

\* the query string of a URL: the text between its first '?' and the '#' after it
QueryItemsOf(u) ==
    LET qs == urlparse(u).query
    IN  IF qs = <<>> THEN <<>> ELSE written_items(split(qs, "&"))

BaseItems == QueryItemsOf(normalize_url(url))
ResultItems == QueryItemsOf(result)

KeysOf(items) == {items[i][1] : i \in DOMAIN items}

\* the value of the last occurrence of key k among the items
LastValue(items, k) ==
    items[CHOOSE i \in DOMAIN items :
            /\ items[i][1] = k
            /\ \A j \in DOMAIN items : items[j][1] = k => j <= i][2]

Occurrences(items, k) == Cardinality({i \in DOMAIN items : items[i][1] = k})

\* the six UTM keys with the record field each one takes
UtmFields ==
    utm_params(record.source, record.medium, record.campaign_name,
               record.campaign_id, record.term, record.content)

\* the UTM keys whose record field is non-empty
SetUtmKeys == {UtmFields[i][1] : i \in {j \in DOMAIN UtmFields : Truthy(UtmFields[j][2])}}

BaseParses == ~urlparse(normalize_url(url)).raised

IsBlank(u) == u = None \/ strip(u) = <<>>

----------------------------------------------------------------------------
(* C1 to C4: build_campaign_url *)

\* C1: every query key of the base URL that is not a UTM key receiving a
\* non-empty record value is in the result's query string, with the value of
\* its last occurrence in the base URL.
C1_PreservesUnrelated ==
    Built =>
        LET before == BaseItems
            after == ResultItems
        IN  \A k \in KeysOf(before) \ SetUtmKeys :
                /\ k \in KeysOf(after)
                /\ LastValue(after, k) = LastValue(before, k)

\* C2 as claimed: for every non-empty base URL, every UTM key whose record
\* field is non-empty occurs exactly once in the result's query string, with
\* the record's value.
C2_Overwrite_AnyBase ==
    (Built /\ Truthy(url)) =>
        LET items == ResultItems
            fields == UtmFields
        IN  \A i \in DOMAIN fields :
                Truthy(fields[i][2]) =>
                    /\ Occurrences(items, fields[i][1]) = 1
                    /\ LastValue(items, fields[i][1]) = fields[i][2]

\* C2 as amended: for every non-empty base URL whose normalized form urlparse
\* accepts, every UTM key whose record field is non-empty occurs exactly once
\* in the result's query string, with the record's value, however often the
\* key occurred in the base URL.
C2_Overwrite ==
    (Built /\ Truthy(url) /\ BaseParses) =>
        LET items == ResultItems
            fields == UtmFields
        IN  \A i \in DOMAIN fields :
                Truthy(fields[i][2]) =>
                    /\ Occurrences(items, fields[i][1]) = 1
                    /\ LastValue(items, fields[i][1]) = fields[i][2]

\* a base URL that carries utm_source twice was built with a new source
C2_Witness ==
    /\ Built
    /\ BaseParses
    /\ Occurrences(BaseItems, utm_source) = 2
    /\ record.source = <<"n","e","w">>
    /\ Occurrences(ResultItems, utm_source) = 1
    /\ LastValue(ResultItems, utm_source) = <<"n","e","w">>

\* C3: a UTM key whose record field is empty or None is in the result's query
\* string iff it is in the base URL's, and then with the base URL's value.
C3_EmptyFieldKeepsBase ==
    Built =>
        LET before == BaseItems
            after == ResultItems
            fields == UtmFields
        IN  \A i \in DOMAIN fields :
                ~Truthy(fields[i][2]) =>
                    /\ fields[i][1] \in KeysOf(after) <=> fields[i][1] \in KeysOf(before)
                    /\ fields[i][1] \in KeysOf(before) =>
                            LastValue(after, fields[i][1]) = LastValue(before, fields[i][1])

\* C4: a base URL that is empty after trimming gives the empty string.
C4_BlankBaseGivesEmpty ==
    (Built /\ IsBlank(url)) => result = <<>>

----------------------------------------------------------------------------
(* C5, C6: normalize_url *)

Normalized == pc = "done" /\ op = "normalize_url"

\* C5: with t the trimmed input, the result is "" when t is empty, t when t
\* starts with 'http://' or 'https://', and 'https://' followed by t otherwise.
C5_NormalizeCases ==
    (Normalized /\ url # None) =>
        LET t == strip(url)
        IN  result = IF t = <<>> THEN <<>>
                     ELSE IF startswith(t, HttpPrefix) \/ startswith(t, HttpsPrefix)
                          THEN t
                          ELSE HttpsPrefix \o t

\* C6: normalizing the result of normalize_url gives the same result again.
C6_Idempotent ==
    Normalized => normalize_url(result) = result

\* a padded input without scheme was normalized
C6_Witness ==
    /\ Normalized
    /\ url = <<" ", "a", " ">>
    /\ result = HttpsPrefix \o <<"a">>

----------------------------------------------------------------------------
(* C7: lint_utm_parameter *)

Linted == pc = "done" /\ op = "lint_utm_parameter"

HasUppercase(v) == \E i \in DOMAIN v : v[i] \in Range(UpperLetters)
HasSpace(v) == \E i \in DOMAIN v : v[i] = " "
HasSpecial(v) ==
    \E i \in DOMAIN v :
        v[i] \notin Range(LowerLetters) \cup Range(UpperLetters) \cup Range(Digits)
                        \cup {"_", "-"}

\* C7: the result is the subsequence of [Uppercase, ContainsSpaces,
\* SpecialCharacters] whose conditions hold of the value; a value with a space
\* yields both ContainsSpaces and SpecialCharacters; None and "" yield [].
C7_LintSubsequence ==
    Linted =>
        IF value = None \/ value = <<>> THEN result = <<>>
        ELSE /\ result =
                    (IF HasUppercase(value) THEN <<Uppercase>> ELSE <<>>)
                    \o (IF HasSpace(value) THEN <<ContainsSpaces>> ELSE <<>>)
                    \o (IF HasSpecial(value) THEN <<SpecialCharacters>> ELSE <<>>)
             /\ HasSpace(value) =>
                    {ContainsSpaces, SpecialCharacters} \subseteq Range(result)

\* a value with an uppercase letter, a space and a '!' got the three warnings
C7_Witness ==
    /\ Linted
    /\ value = <<"Z", " ", "!">>
    /\ result = <<Uppercase, ContainsSpaces, SpecialCharacters>>

----------------------------------------------------------------------------
(* C8 to C10: validate_url_reachability *)

Probed == pc = "done" /\ op = "validate_url_reachability"

Methods == [i \in DOMAIN requests |-> requests[i].method]

\* C8: the call returns and does not raise, and returns true iff no request
\* raised and the status of the last answer s satisfies 200 <= s < 400.
C8_ReachableIff ==
    Probed =>
        /\ ~raised
        /\ result \in BOOLEAN
        /\ result <=>
              /\ requests # <<>>
              /\ \A i \in DOMAIN requests : ~requests[i].outcome.raised
              /\ 200 <= requests[Len(requests)].outcome.status_code
              /\ requests[Len(requests)].outcome.status_code < 400

\* HEAD answered 405 and the GET that followed answered 200
C8_Witness ==
    /\ Probed
    /\ Len(requests) = 2
    /\ requests[1].outcome.status_code = 405
    /\ requests[2].outcome.status_code = 200
    /\ result = TRUE

\* C9: on a non-empty URL HEAD is issued first and once; GET is issued iff
\* HEAD answered 405, then once and second; nothing follows.  One request
\* when HEAD's status is not 405 (or HEAD raised), two when it is 405.
C9_ProbeOrder ==
    (op = "validate_url_reachability" /\ Truthy(url)) =>
        /\ pc = "head" <=> requests = <<>>
        /\ requests # <<>> => requests[1].method = "HEAD"
        /\ Len(requests) <= 2
        /\ Len(requests) = 2 =>
              /\ requests[2].method = "GET"
              /\ ~requests[1].outcome.raised
              /\ requests[1].outcome.status_code = 405
        /\ pc = "get" <=>
              /\ Methods = <<"HEAD">>
              /\ ~requests[1].outcome.raised
              /\ requests[1].outcome.status_code = 405
        /\ pc = "done" =>
              Methods = IF ~requests[1].outcome.raised
                              /\ requests[1].outcome.status_code = 405
                        THEN <<"HEAD", "GET">>
                        ELSE <<"HEAD">>

\* HEAD answered 405, the GET raised, and the call is over with two requests
C9_Witness ==
    /\ Probed
    /\ Methods = <<"HEAD", "GET">>
    /\ requests[1].outcome.status_code = 405
    /\ requests[2].outcome.raised

\* C10: on an empty or blank URL no request is issued and the call returns false.
C10_BlankNoRequest ==
    (op = "validate_url_reachability" /\ IsBlank(url)) =>
        /\ requests = <<>>
        /\ pc = "done" => result = FALSE

----------------------------------------------------------------------------
(* C11, C14: build_campaign_url, continued *)

Characters == Range(Ascii) \cup Whitespace

IsStr(v) == v # None /\ \A i \in DOMAIN v : v[i] \in Characters

C14_OnlyQueryChanges ==
    (Built /\ ~raised /\ Truthy(url) /\ BaseParses) =>
        LET before == urlparse(normalize_url(url))
            after == urlparse(result)
        IN  /\ ~after.raised
            /\ after.scheme = before.scheme
            /\ after.netloc = before.netloc
            /\ after.path = before.path
            /\ after.params = before.params
            /\ after.fragment = before.fragment

\* a call of generate_campaign_data: in progress, and over
Generating == op = "generate_campaign_data" /\ pc = "attempt"
Generated == op = "generate_campaign_data" /\ pc = "done"

\* the last answer is a JSON object (with the fields of Contents)
IsObject(c) == c \notin {ApiError, Malformed, NoContent}

\* a JSON value that is a string
IsText(v) == v \notin {Absent, None, Number}

Failing(kind) == kind \in {"api_error", "invalid"}

LastAttempt == attempts[Len(attempts)]

\* C12: generate_campaign_data returns a record only when the service's last
\* answer is an object whose website_url, campaign_source and campaign_medium
\* are strings, and the record then has the seven fields with those three
\* values; when the answer lacks a required field the call raises and no
\* record is returned.
C12_RecordOnlyWhenValid ==
    Generated =>
        /\ ~raised =>
              /\ IsObject(message_content)
              /\ \A f \in RequiredFields : IsText(message_content[f])
              /\ DOMAIN result = Range(FieldNames)
              /\ \A f \in RequiredFields : result[f] = message_content[f]
        /\ (IsObject(message_content)
              /\ \E f \in RequiredFields : message_content[f] = Absent) =>
              /\ raised
              /\ error # "none"
              /\ result = None

\* three answers in a row without campaign_source: the call raised
C12_Witness ==
    /\ Generated
    /\ IsObject(message_content)
    /\ message_content.campaign_source = Absent
    /\ IsText(message_content.website_url)
    /\ IsText(message_content.campaign_medium)
    /\ attempts = <<"invalid", "invalid", "invalid">>
    /\ raised

\* C13: when the call ends because the service's answer failed validation,
\* the handler shows the invalid-response-format message and not the
\* Error-calling-OpenAI one, and the seven form fields and usage_count keep
\* their values.
C13_DedicatedPath ==
    [][(Generating /\ pc' = "done" /\ raised' /\ attempts'[Len(attempts')] = "invalid") =>
           /\ shown' = InvalidFormatMessage
           /\ shown' # OpenAIErrorMessage
           /\ form' = form
           /\ usage_count' = usage_count]_vars

\* the attempts of one call: at most 3, every one before the last failing;
\* a call in progress has made fewer than 3; a call that is over returned at
\* a valid attempt or raised at the third failing one
C15_Attempts ==
    op = "generate_campaign_data" =>
        /\ Len(attempts) <= 3
        /\ \A i \in 1..(Len(attempts) - 1) : Failing(attempts[i])
        /\ Generating =>
              /\ Len(attempts) < 3
              /\ \A i \in DOMAIN attempts : Failing(attempts[i])
        /\ Generated =>
              /\ Len(attempts) >= 1
              /\ IF LastAttempt = "valid"
                 THEN ~raised
                 ELSE raised /\ Len(attempts) = 3

\* C15: one call makes at most 3 attempts, returns at the first valid one,
\* retries after a failing one while fewer than 3 were made, raises after
\* the third failing one, and always ends.
C15_AtMostThreeAttempts == []C15_Attempts /\ (Generating ~> Generated)

\* an API error, then an invalid answer, then a valid one: the third attempt
\* returned the record
C15_Witness ==
    /\ Generated
    /\ attempts = <<"api_error", "invalid", "valid">>
    /\ ~raised
    /\ usage_count = 1

====
